---- MODULE Spec2Model ----
(***************************************************************************)
(* HessianRNN (hessianfree/hessianrnn.py): parameter layout, forward       *)
(* propagation through time, error evaluation, BPTT gradient and           *)
(* Gauss-Newton curvature-vector products.                                 *)
(*                                                                         *)
(* Python lists and numpy arrays are functions on 0..n-1, so that shape[l],*)
(* W[offset:W_end] and activations[l][b][s] keep the indices of the code.  *)
(* Real numbers are integers; a division by the batch size is kept exact   *)
(* as the pair <<numerator, denominator>>.                                 *)
(***************************************************************************)
EXTENDS Integers, Sequences, FiniteSets, TLC

VARIABLES
    args,           \* arguments of the call in progress (constructor, forward, error)
    pc,             \* position of the call in progress
    log,            \* calls made so far to collaborators, in order
    struc_damping,  \* self.struc_damping
    rec_layers,     \* self.rec_layers
    shape,          \* self.shape (set by the base constructor)
    conns,          \* self.conns (set by the base constructor)
    W,              \* self.W, the flat parameter vector
    offsets,        \* self.offsets, connection key -> <<start, W_end, b_end>>
    layers,         \* self.layers: per layer, the nonlinearity and its internal state
    plant,          \* the plant object handed to forward and error
    input,          \* forward: the local "input" after promotion
    activations,    \* forward: the local "activations"
    d_activations,  \* forward: the local "d_activations"
    step_s,         \* forward: the timestep s of the sweep
    layer_i,        \* forward: the layer i of the sweep
    ret,            \* value returned by the last completed call
    calls,          \* number of completed top-level calls
    inputs,         \* self.inputs, the stored batch
    targets,        \* self.targets
    self_activations,    \* self.activations, cached from the forward pass on the batch
    self_d_activations,  \* self.d_activations
    sweep,          \* calc_grad: the locals deltas, state_deltas, grad and the loop counters s, l
    output,         \* the caller's array that calc_G may be handed as "output"
    calcG_Gv        \* calc_G: the local "Gv"

netVars == <<struc_damping, rec_layers, shape, conns, W, offsets>>
fwdVars == <<input, activations, d_activations, step_s, layer_i>>
batchVars == <<inputs, targets, self_activations, self_d_activations>>
gVars == <<output, calcG_Gv>>
vars == <<args, pc, log, netVars, layers, plant, fwdVars, ret, calls, batchVars, sweep, gVars>>

-----------------------------------------------------------------------------
(* Bounds of the model.                                                    *)

MaxLayers == 3
MaxUnits == 2
NumSeeds == 2
MaxBatch == 2
MaxT == 2
MaxCalls == 2

-----------------------------------------------------------------------------
(* Python values.                                                          *)

None == [some |-> FALSE, val |-> <<>>]
Some(x) == [some |-> TRUE, val |-> x]

PyLen(a) == Cardinality(DOMAIN a)
PyRange(n) == 0 .. (n - 1)
PyList(n, F(_)) == IF n <= 0 THEN <<>> ELSE [k \in 0 .. (n - 1) |-> F(k)]

\* a[lo:hi]
Slice(a, lo, hi) == IF hi <= lo THEN <<>> ELSE [k \in 0 .. (hi - lo - 1) |-> a[lo + k]]

\* np.concatenate((a, b))
Concatenate(a, b) ==
    LET na == PyLen(a)
        nb == PyLen(b)
    IN  IF na + nb = 0 THEN <<>>
        ELSE [k \in 0 .. (na + nb - 1) |-> IF k < na THEN a[k] ELSE b[k - na]]

\* np.any(flags)
NpAny(flags) == \E k \in DOMAIN flags : flags[k]

RECURSIVE SumOver(_, _)
SumOver(f, S) ==
    IF S = {} THEN 0
    ELSE LET x == CHOOSE y \in S : TRUE IN f[x] + SumOver(f, S \ {x})

-----------------------------------------------------------------------------
(* Parameter layout: HessianFF (base class) part.                          *)

\* Default feedforward connectivity of the base class: layer i feeds layer i+1.
DefaultConns(n) == PyList(n - 1, LAMBDA pre : <<pre + 1>>)

\* conns = {0: [1, 2], 1: [2], ...}: every layer feeds every later layer.
DenseConns(n) == PyList(n - 1, LAMBDA pre : [j \in 1 .. (n - 1 - pre) |-> pre + j])

\* The connection keys in the order "for pre in conns: for post in conns[pre]".
RECURSIVE ConnKeysFrom(_, _)
ConnKeysFrom(cn, pre) ==
    IF pre >= PyLen(cn) THEN <<>>
    ELSE [j \in 1 .. Len(cn[pre]) |-> <<pre, cn[pre][j]>>] \o ConnKeysFrom(cn, pre + 1)

ConnKeys(cn) == ConnKeysFrom(cn, 0)

\* back_conns[i]: the layers feeding layer i.
BackConns(cn, i) == {pre \in DOMAIN cn : \E j \in 1 .. Len(cn[pre]) : cn[pre][j] = i}

\* Number of parameters of one connection: weight block and bias block.
NParams(sh, pre, post) == (sh[pre] + 1) * sh[post]

\* Value number k of the weights the initialiser draws; seed names the draw.
WeightValue(seed, k) == ((seed * (k + 1) + (k \div 2)) % 3) - 1

\* init_weights(shapes): one flat vector holding (pre + 1) * post values per shape.
RECURSIVE ShapesLen(_)
ShapesLen(shapes) ==
    IF shapes = <<>> THEN 0
    ELSE (Head(shapes)[1] + 1) * Head(shapes)[2] + ShapesLen(Tail(shapes))

InitWeights(shapes, seed) == PyList(ShapesLen(shapes), LAMBDA k : WeightValue(seed, k))

\* HessianFF.compute_offsets: the feedforward ranges, in connection order from 0.
RECURSIVE BaseOffsetsFrom(_, _, _)
BaseOffsetsFrom(sh, keys, offset) ==
    IF keys = <<>> THEN <<>>
    ELSE LET pre == Head(keys)[1]
             post == Head(keys)[2]
             n == sh[pre] * sh[post]
         IN  (Head(keys) :> <<offset, offset + n, offset + n + sh[post]>>)
             @@ BaseOffsetsFrom(sh, Tail(keys), offset + n + sh[post])

BaseComputeOffsets(sh, cn) == BaseOffsetsFrom(sh, ConnKeys(cn), 0)

\* The vector the base constructor leaves in self.W: the loaded weights when
\* load_weights is given, freshly initialised feedforward weights otherwise.
BaseWeights(a) ==
    IF a.load_weights.some THEN a.load_weights.val
    ELSE LET cn == IF a.conns.some THEN a.conns.val ELSE DefaultConns(PyLen(a.shape))
             keys == ConnKeys(cn)
         IN  InitWeights([j \in 1 .. Len(keys) |->
                             <<a.shape[keys[j][1]], a.shape[keys[j][2]]>>], a.seed)

-----------------------------------------------------------------------------
(* Parameter layout: HessianRNN part.                                      *)

\* rec_layers = [False] + [True] * (len(shape) - 2) + [False]
DefaultRecLayers(sh) ==
    LET n == PyLen(sh)
        mid == IF n - 2 > 0 THEN n - 2 ELSE 0
    IN  PyList(mid + 2, LAMBDA l : l # 0 /\ l # mid + 1)

\* len(rec_layers) != len(shape)
RecLayersMismatchShort(rec, sh) == PyLen(rec) < PyLen(sh)
RecLayersMismatch(rec, sh) == PyLen(rec) # PyLen(sh)

\* The loop of compute_offsets over the layers, from layer l on.
RECURSIVE RecOffsetsFrom(_, _, _, _)
RecOffsetsFrom(sh, rec, l, offset) ==
    IF l >= PyLen(sh) THEN <<>>
    ELSE IF rec[l]
         THEN (<<l, l>> :> <<offset,
                             offset + sh[l] * sh[l],
                             offset + (sh[l] + 1) * sh[l]>>)
              @@ RecOffsetsFrom(sh, rec, l + 1, offset + (sh[l] + 1) * sh[l])
         ELSE RecOffsetsFrom(sh, rec, l + 1, offset)

\* HessianRNN.compute_offsets: the base ranges, then the recurrent ones from len(self.W).
ComputeOffsets(sh, cn, rec, w) ==
    BaseComputeOffsets(sh, cn) @@ RecOffsetsFrom(sh, rec, 0, PyLen(w))

\* The shapes handed to init_weights for the recurrent weights.
RECURSIVE RecShapesFrom(_, _, _)
RecShapesFrom(sh, rec, l) ==
    IF l >= PyLen(sh) THEN <<>>
    ELSE (IF rec[l] THEN <<<<sh[l], sh[l]>>>> ELSE <<>>) \o RecShapesFrom(sh, rec, l + 1)

\* "add on recurrent weights"
WithRecWeights(a, sh, rec, w) ==
    IF ~a.load_weights.some /\ NpAny(rec)
    THEN Concatenate(w, InitWeights(RecShapesFrom(sh, rec, 0), a.seed + 1))
    ELSE w

-----------------------------------------------------------------------------
(* Linear algebra on batches: a[b][u] is unit u of batch row b.            *)

\* Sum of f[0] .. f[n-1].
RECURSIVE SumTo(_, _)
SumTo(f, n) == IF n <= 0 THEN 0 ELSE f[n - 1] + SumTo(f, n - 1)

\* a[k] for a possibly negative Python index k into an axis of length n.
PyIndex(k, n) == IF k < 0 THEN k + n ELSE k

Zeros(n) == PyList(n, LAMBDA u : 0)
Zeros2(B, n) == PyList(B, LAMBDA b : Zeros(n))

\* np.dot(a, M) for a[b][j] and M[j][k]
Dot(a, M, nin, nout) ==
    [b \in DOMAIN a |-> PyList(nout, LAMBDA k : SumTo([j \in PyRange(nin) |-> a[b][j] * M[j][k]], nin))]

\* np.dot(a, M.T) for a[b][k] and M[j][k]
DotT(a, M, nin, nout) ==
    [b \in DOMAIN a |-> PyList(nin, LAMBDA j : SumTo([k \in PyRange(nout) |-> a[b][k] * M[j][k]], nout))]

\* a + c, elementwise, for two batches
Add2(a, c) == [b \in DOMAIN a |-> [u \in DOMAIN a[b] |-> a[b][u] + c[b][u]]]

\* a + v, the vector v broadcast over the batch rows
AddRow(a, v) == [b \in DOMAIN a |-> [u \in DOMAIN a[b] |-> a[b][u] + v[u]]]

\* a * c, elementwise
Mul2(a, c) == [b \in DOMAIN a |-> [u \in DOMAIN a[b] |-> a[b][u] * c[b][u]]]

\* k * a for a number k
Scale2(k, a) == [b \in DOMAIN a |-> [u \in DOMAIN a[b] |-> k * a[b][u]]]

\* np.sum(a, axis=0)
SumAxis0(a, B, n) == PyList(n, LAMBDA u : SumTo([b \in PyRange(B) |-> a[b][u]], B))

\* outer_sum(a, c) = np.ravel(np.einsum("ij,ik", a, c))
OuterSum(a, c, B, nin, nout) ==
    PyList(nin * nout,
           LAMBDA k : SumTo([b \in PyRange(B) |-> a[b][k \div nout] * c[b][k % nout]], B))

\* get_weights(params, conn): the weight matrix and the bias vector of a connection.
GetWeights(net, params, conn) ==
    LET o == net.offsets[conn]
        nin == net.shape[conn[1]]
        nout == net.shape[conn[2]]
    IN  [W |-> PyList(nin, LAMBDA j : PyList(nout, LAMBDA k : params[o[1] + j * nout + k])),
         b |-> PyList(nout, LAMBDA k : params[o[2] + k])]

-----------------------------------------------------------------------------
(* Nonlinearities of the base library: activation, d_activation, reset,    *)
(* stateful, use_activations.                                              *)

HiddenTypes == {"linear", "relu", "integrator"}

Stateful(type) == type = "integrator"
UseActivations(type) == type = "relu"

\* A nonlinearity object as constructed: no internal state yet.
NewLayer(type) == [type |-> type, act_state |-> <<>>]
NewLayers(types) == [l \in DOMAIN types |-> NewLayer(types[l])]

\* reset(): forget the internal state.
LayerReset(layer) == [layer EXCEPT !.act_state = <<>>]

\* activation(x): the output, and the object with its internal state advanced.
LayerActivation(layer, x) ==
    IF layer.type = "integrator"
    THEN LET old == IF layer.act_state = <<>>
                    THEN [b \in DOMAIN x |-> [u \in DOMAIN x[b] |-> 0]]
                    ELSE layer.act_state
             new == Add2(old, x)
         IN  [out |-> new, layer |-> [layer EXCEPT !.act_state = new]]
    ELSE IF layer.type = "relu"
    THEN [out |-> [b \in DOMAIN x |-> [u \in DOMAIN x[b] |-> IF x[b][u] > 0 THEN x[b][u] ELSE 0]],
          layer |-> layer]
    ELSE [out |-> x, layer |-> layer]

\* d_activation(x): per unit, the derivative; for a stateful nonlinearity the
\* three blocks <<d_input, d_state, d_output>>.
LayerDActivation(layer, x) ==
    IF layer.type = "integrator"
    THEN [b \in DOMAIN x |-> [u \in DOMAIN x[b] |-> <<1, 1, 1>>]]
    ELSE IF layer.type = "relu"
    THEN [b \in DOMAIN x |-> [u \in DOMAIN x[b] |-> IF x[b][u] > 0 THEN 1 ELSE 0]]
    ELSE [b \in DOMAIN x |-> [u \in DOMAIN x[b] |-> 1]]

\* J_dot(d, vec): the Jacobian d, one entry per unit, applied to vec.
JDot(d, vec) == [b \in DOMAIN vec |-> [u \in DOMAIN vec[b] |-> d[b][u] * vec[b][u]]]

-----------------------------------------------------------------------------
(* The plant: reset(), call with the previous output, shape, get_inputs(), *)
(* get_targets().  Its state x is driven by the output it is called with.  *)

PlantWrap(v) == ((v + 2) % 5) - 2

NewPlant(B, T, dim, odim) ==
    [shape |-> <<B, T, dim>>, odim |-> odim, x |-> Zeros(B), inputs |-> <<>>]

PlantReset(pl) == [pl EXCEPT !.x = Zeros(pl.shape[1]), !.inputs = <<>>]

\* plant(u): the next input, one row per batch element, and the plant advanced.
PlantCall(pl, u) ==
    LET nx == [b \in DOMAIN pl.x |-> PlantWrap(pl.x[b] + u[b][0] + 1)]
        out == [b \in DOMAIN pl.x |-> PyList(pl.shape[3], LAMBDA k : nx[b])]
    IN  [out |-> out,
         plant |-> [pl EXCEPT !.x = nx, !.inputs = Append(pl.inputs, out)]]

\* get_inputs(): the inputs generated, as [batch][timestep][unit].
PlantGetInputs(pl) ==
    [b \in DOMAIN pl.x |-> PyList(Len(pl.inputs), LAMBDA t : pl.inputs[t + 1][b])]

\* get_targets(): the plant's targets, as [batch][timestep][unit].
PlantGetTargets(pl) ==
    [b \in DOMAIN pl.x |-> PyList(Len(pl.inputs), LAMBDA t : PyList(pl.odim, LAMBDA k : 1))]

-----------------------------------------------------------------------------
(* HessianRNN.forward.                                                     *)

Event(name, step, layer, arg) == [ev |-> name, s |-> step, i |-> layer, arg |-> arg]

\* input[:, None, :]: a new time axis of length 1.
AddTimeAxis(a) == [b \in DOMAIN a |-> [t \in {0} |-> a[b]]]
\* input[None, :, :]: a new first axis of length 1.
AddFirstAxis(a) == [b \in {0} |-> a]

\* lines 76-81: the local "input" with its shape[0] and shape[1].
PromoteInput(in, pl) ==
    IF in.kind = "plant"
    THEN [kind |-> "plant", val |-> <<>>, B |-> pl.shape[1], T |-> pl.shape[2]]
    ELSE IF in.ndim < 3
    THEN LET a == AddFirstAxis(in.val)
         IN  [kind |-> "array", val |-> a, B |-> PyLen(a), T |-> PyLen(a[0])]
    ELSE [kind |-> "array", val |-> in.val, B |-> PyLen(in.val), T |-> PyLen(in.val[0])]

\* lines 83-85
NewActivations(net, B, T) ==
    [l \in DOMAIN net.shape |-> PyList(B, LAMBDA b : PyList(T, LAMBDA t : Zeros(net.shape[l])))]

\* lines 76-78: a callable input is a plant, and is reset.
BeginPlantNoReset(in, pl) == pl
BeginPlant(in, pl) == IF in.kind = "plant" THEN PlantReset(pl) ELSE pl

\* lines 90-92: "reset any state in the nonlinearities"
ResetLayers(lay) == [l \in DOMAIN lay |-> LayerReset(lay[l])]

\* lines 76-92: everything forward does before the sweep.
ForwardBegin(net, in, st) ==
    LET isPlant == in.kind = "plant"
        pl == BeginPlant(in, st.plant)
        loc == PromoteInput(in, pl)
    IN  [input |-> loc,
         activations |-> NewActivations(net, loc.B, loc.T),
         d_activations |-> [l \in DOMAIN net.shape |-> <<>>],
         layers |-> ResetLayers(st.layers),
         plant |-> pl,
         log |-> IF isPlant THEN <<Event("plant.reset", 0, 0, <<>>)>> ELSE <<>>,
         s |-> 0,
         i |-> 0]

\* activations[l][:, t]
AtStep(acts, l, t) == [b \in DOMAIN acts[l] |-> acts[l][b][t]]

\* The timestep whose output the plant is called with at step t: s - 1.
PlantArgStepSame(t, T) == t
PlantArgStep(t, T) == PyIndex(t - 1, T)

\* lines 107-111: the feedforward input of layer l at step t.
RECURSIVE FFInput(_, _, _, _, _, _)
FFInput(net, params, acts, l, t, pres) ==
    IF pres = {} THEN Zeros2(PyLen(acts[l]), net.shape[l])
    ELSE LET pre == CHOOSE p \in pres : TRUE
             w == GetWeights(net, params, <<pre, l>>)
         IN  Add2(FFInput(net, params, acts, l, t, pres \ {pre}),
                  AddRow(Dot(AtStep(acts, pre, t), w.W, net.shape[pre], net.shape[l]), w.b))

\* lines 115-116: the timestep whose activation the recurrent input reads: s - 1.
RecStepSame(t) == t
RecStep(t) == t - 1

\* lines 114-122: the recurrent input of layer l at step t.
RecInput(net, params, acts, l, t) ==
    IF net.rec_layers[l]
    THEN LET w == GetWeights(net, params, <<l, l>>)
         IN  IF t > 0
             THEN Dot(AtStep(acts, l, RecStep(t)), w.W, net.shape[l], net.shape[l])
             ELSE [b \in DOMAIN acts[l] |-> w.b]
    ELSE Zeros2(PyLen(acts[l]), net.shape[l])

\* lines 107-116: the cells <<layer, timestep>> of "activations" that the inputs
\* of layer l at step t are computed from.
CellReads(net, l, t) ==
    {<<pre, t>> : pre \in IF l = 0 THEN {} ELSE BackConns(net.conns, l)}
       \cup (IF net.rec_layers[l] /\ t > 0 THEN {<<l, RecStep(t)>>} ELSE {})

\* lines 98-139: the body of the sweep for layer st.i at timestep st.s, and the
\* loop counters advanced.
ForwardCell(net, params, deriv, st) ==
    LET n == PyLen(net.shape)
        l == st.i
        t == st.s
        isPlant == st.input.kind = "plant"
        arg == AtStep(st.activations, n - 1, PlantArgStep(t, st.input.T))
        called == PlantCall(st.plant, arg)
        ff_input == IF l = 0
                    THEN IF isPlant THEN called.out
                         ELSE [b \in DOMAIN st.input.val |-> st.input.val[b][t]]
                    ELSE FFInput(net, params, st.activations, l, t, BackConns(net.conns, l))
        x == Add2(ff_input, RecInput(net, params, st.activations, l, t))
        applied == LayerActivation(st.layers[l], x)
        d_act == LayerDActivation(st.layers[l],
                                  IF UseActivations(st.layers[l].type) THEN applied.out ELSE x)
        last == l = n - 1
    IN  [input |-> st.input,
         activations |-> [st.activations EXCEPT ![l] =
                             [b \in DOMAIN @ |-> [@[b] EXCEPT ![t] = applied.out[b]]]],
         d_activations |-> IF deriv
                           THEN [st.d_activations EXCEPT ![l] =
                                    [b \in DOMAIN d_act |->
                                        Concatenate(IF @ = <<>> THEN <<>> ELSE @[b],
                                                    [k \in {0} |-> d_act[b]])]]
                           ELSE st.d_activations,
         layers |-> [st.layers EXCEPT ![l] = applied.layer],
         plant |-> IF l = 0 /\ isPlant THEN called.plant ELSE st.plant,
         log |-> (IF l = 0 /\ isPlant
                  THEN Append(st.log, Event("plant.call", t, 0, arg)) ELSE st.log)
                 \o <<Event("layer", t, l, CellReads(net, l, t))>>,
         s |-> IF last THEN t + 1 ELSE t,
         i |-> IF last THEN 0 ELSE l + 1]

\* The whole sweep from st on; what forward returns is in the result.
RECURSIVE ForwardRun(_, _, _, _)
ForwardRun(net, params, deriv, st) ==
    IF st.s >= st.input.T THEN st
    ELSE ForwardRun(net, params, deriv, ForwardCell(net, params, deriv, st))

\* forward(input, params, deriv) on the network in state st.
Forward(net, in, params, deriv, st) ==
    ForwardRun(net, params, deriv, ForwardBegin(net, in, st))

-----------------------------------------------------------------------------
(* Construction: HessianRNN.__init__, one action per step.                 *)

NoResult == [kind |-> "none", val |-> <<>>]

\* calc_grad is not running: it has no locals.
NoSweep == [deltas |-> <<>>, state_deltas |-> <<>>, grad |-> <<>>, s |-> 0, l |-> 0]

\* No batch is stored in the network yet.
NoBatch ==
    /\ inputs = <<>>
    /\ targets = <<>>
    /\ self_activations = <<>>
    /\ self_d_activations = <<>>

Shapes == UNION {[PyRange(n) -> 1 .. MaxUnits] : n \in 2 .. MaxLayers}
RecLists == UNION {[PyRange(n) -> BOOLEAN] : n \in 1 .. (MaxLayers + 1)}

\* Length of the parameter vector of a network of this topology.
FullLen(sh, cn, rec) ==
    LET keys == ConnKeys(cn)
    IN  ShapesLen([j \in 1 .. Len(keys) |-> <<sh[keys[j][1]], sh[keys[j][2]]>>])
        + ShapesLen(RecShapesFrom(sh, rec, 0))

CtorArgs ==
    {a \in [shape : Shapes, rec_layers : {None} \cup {Some(r) : r \in RecLists},
            struc_damping : {0, 1}, dense : BOOLEAN, load : BOOLEAN, seed : 1 .. NumSeeds,
            hidden : {"linear"}]
       : a.struc_damping = 0 \/ (a.seed = 1 /\ ~a.dense)}

\* The keyword arguments as the constructor receives them.  A loaded vector is
\* one saved from a network of the same topology.
MakeArgs(a) ==
    LET n == PyLen(a.shape)
        cn == IF a.dense THEN DenseConns(n) ELSE DefaultConns(n)
        rec == IF a.rec_layers.some THEN a.rec_layers.val ELSE DefaultRecLayers(a.shape)
    IN  [shape |-> a.shape,
         rec_layers |-> a.rec_layers,
         struc_damping |-> a.struc_damping,
         conns |-> IF a.dense THEN Some(cn) ELSE None,
         seed |-> a.seed,
         neuron_types |-> PyList(n, LAMBDA l : IF l = 0 THEN "linear" ELSE a.hidden),
         load_weights |->
            IF a.load /\ PyLen(rec) = n
            THEN Some(PyList(FullLen(a.shape, cn, rec), LAMBDA k : WeightValue(a.seed, k)))
            ELSE None]

InitConstruct ==
    /\ args \in {MakeArgs(a) : a \in CtorArgs}
    /\ pc = "new"
    /\ log = <<>>
    /\ struc_damping = 0
    /\ rec_layers = <<>>
    /\ shape = <<>>
    /\ conns = <<>>
    /\ W = <<>>
    /\ offsets = <<>>
    /\ layers = <<>>
    /\ plant = <<>>
    /\ input = <<>>
    /\ activations = <<>>
    /\ d_activations = <<>>
    /\ step_s = 0
    /\ layer_i = 0
    /\ ret = NoResult
    /\ calls = 0
    /\ NoBatch
    /\ sweep = NoSweep
    /\ output = <<>>
    /\ calcG_Gv = <<>>

\* lines 32-37
SetRecLayers ==
    /\ pc = "new"
    /\ struc_damping' = args.struc_damping
    /\ rec_layers' = IF args.rec_layers.some THEN args.rec_layers.val
                     ELSE DefaultRecLayers(args.shape)
    /\ pc' = "check"
    /\ UNCHANGED <<gVars, sweep, batchVars, args, log, shape, conns, W, offsets, layers, plant, fwdVars, ret, calls>>

\* lines 39-40
CheckRecLayers ==
    /\ pc = "check"
    /\ pc' = IF RecLayersMismatch(rec_layers, args.shape) THEN "ValueError" ELSE "super_init"
    /\ UNCHANGED <<gVars, sweep, batchVars, args, log, netVars, layers, plant, fwdVars, ret, calls>>

\* line 42, up to the base constructor's call of compute_offsets
BaseInit ==
    /\ pc = "super_init"
    /\ shape' = args.shape
    /\ conns' = IF args.conns.some THEN args.conns.val ELSE DefaultConns(PyLen(args.shape))
    /\ W' = BaseWeights(args)
    /\ layers' = NewLayers(args.neuron_types)
    /\ log' = Append(log, "HessianFF.__init__")
    /\ pc' = "compute_offsets"
    /\ UNCHANGED <<gVars, sweep, batchVars, args, struc_damping, rec_layers, offsets, plant, fwdVars, ret, calls>>

\* lines 52-65, called by the base constructor
CallComputeOffsets ==
    /\ pc = "compute_offsets"
    /\ offsets' = ComputeOffsets(shape, conns, rec_layers, W)
    /\ log' = Append(log, "compute_offsets")
    /\ pc' = "add_rec"
    /\ UNCHANGED <<gVars, sweep, batchVars, args, struc_damping, rec_layers, shape, conns, W, layers, plant, fwdVars, ret, calls>>

\* lines 44-50
AddRecWeights ==
    /\ pc = "add_rec"
    /\ W' = WithRecWeights(args, shape, rec_layers, W)
    /\ pc' = "constructed"
    /\ UNCHANGED <<gVars, sweep, batchVars, args, log, struc_damping, rec_layers, shape, conns, offsets, layers, plant, fwdVars, ret, calls>>

NextConstruct ==
    \/ SetRecLayers
    \/ CheckRecLayers
    \/ BaseInit
    \/ CallComputeOffsets
    \/ AddRecWeights

SpecConstruct == InitConstruct /\ [][NextConstruct]_vars

-----------------------------------------------------------------------------
(* Claims about construction.                                              *)

TailStart(l) ==
    PyLen(W) - SumOver([k \in DOMAIN shape |-> (shape[k] + 1) * shape[k]],
                       {k \in DOMAIN shape : rec_layers[k] /\ k >= l})

\* C1: after construction the ranges [start, b_end) of all connection keys
\* partition [0, len(W)): every index lies in exactly one range, no range leaves
\* the vector, and the recurrent ranges fill the tail in layer order, each of
\* size (shape[l] + 1) * shape[l].
C1_OffsetsPartition ==
    pc = "constructed" =>
        /\ \A k \in PyRange(PyLen(W)) :
              Cardinality({c \in DOMAIN offsets :
                              offsets[c][1] <= k /\ k < offsets[c][3]}) = 1
        /\ \A c \in DOMAIN offsets :
              /\ 0 <= offsets[c][1]
              /\ offsets[c][1] <= offsets[c][2]
              /\ offsets[c][2] <= offsets[c][3]
              /\ offsets[c][3] <= PyLen(W)
        /\ \A l \in DOMAIN shape :
              rec_layers[l] =>
                 /\ <<l, l>> \in DOMAIN offsets
                 /\ offsets[<<l, l>>][1] = TailStart(l)
                 /\ offsets[<<l, l>>][3] - offsets[<<l, l>>][1] = (shape[l] + 1) * shape[l]

\* C2: a rec_layers list whose length differs from the topology's ends the
\* construction in ValueError before the base constructor runs: no shape, weights
\* or offsets exist, and the list is stored as given.
C2_MismatchRejected ==
    (args.rec_layers.some /\ PyLen(args.rec_layers.val) # PyLen(args.shape)
       /\ pc \notin {"new", "check"}) =>
        /\ pc = "ValueError"
        /\ log = <<>>
        /\ shape = <<>> /\ conns = <<>> /\ W = <<>> /\ offsets = <<>>
        /\ rec_layers = args.rec_layers.val

C2_Witness ==
    /\ pc = "ValueError"
    /\ args.rec_layers.some
    /\ PyLen(args.rec_layers.val) > PyLen(args.shape)

-----------------------------------------------------------------------------
(* A constructed network, and the calls made on it.                        *)

\* The object a successful construction leaves (lines 32-50).
Construct(a) ==
    LET rec == IF a.rec_layers.some THEN a.rec_layers.val ELSE DefaultRecLayers(a.shape)
        cn == IF a.conns.some THEN a.conns.val ELSE DefaultConns(PyLen(a.shape))
        w == BaseWeights(a)
    IN  [struc_damping |-> a.struc_damping,
         rec_layers |-> rec,
         shape |-> a.shape,
         conns |-> cn,
         offsets |-> ComputeOffsets(a.shape, cn, rec, w),
         W |-> WithRecWeights(a, a.shape, rec, w),
         layers |-> NewLayers(a.neuron_types)]

\* The network object as the methods see it.
Self ==
    [struc_damping |-> struc_damping, rec_layers |-> rec_layers, shape |-> shape,
     conns |-> conns, offsets |-> offsets, W |-> W,
     types |-> [l \in DOMAIN layers |-> layers[l].type]]

\* The stored batch and the cache of its forward pass.
Batch ==
    [inputs |-> inputs, targets |-> targets,
     activations |-> self_activations, d_activations |-> self_d_activations]

\* Topologies with a single output unit.
NetShapes == {sh \in Shapes : sh[PyLen(sh) - 1] = 1}

\* The networks the calls are made on: built without load_weights, the
\* recurrence flags the default, all set, or none set.
NetArgs ==
    {MakeArgs(a) :
        a \in {x \in [shape : NetShapes,
                      rec_layers : {None} \cup {Some([l \in PyRange(n) |-> f]) :
                                                   n \in 2 .. MaxLayers, f \in BOOLEAN},
                      struc_damping : {0}, dense : BOOLEAN, load : {FALSE},
                      seed : 1 .. NumSeeds, hidden : HiddenTypes]
                 : /\ x.rec_layers.some => PyLen(x.rec_layers.val) = PyLen(x.shape)
                   /\ x.dense => (x.seed = 1 /\ PyLen(x.shape) > 2)
                   /\ x.seed > 1 => x.hidden = "linear"}}

\* Entry (b, t, u) of input array number p.
InputValue(p, b, t, u) == ((p + 2 * b + t + u) % 3) - 1

\* What forward is called with: a 3-D array [batch][time][feature], a 2-D
\* array, or the plant.  d names the argument; InputOf(d, dim) is the argument.
InputNames ==
    [ndim : {3}, B : 1 .. MaxBatch, T : 1 .. MaxT, p : {1, 2}]
       \cup [ndim : {2}, B : {0}, T : 1 .. MaxT, p : {1, 2}]
       \cup [ndim : {0}, B : {0}, T : {0}, p : {0}]

InputOf(d, dim) ==
    IF d.ndim = 3
    THEN [kind |-> "array", ndim |-> 3,
          val |-> PyList(d.B, LAMBDA b : PyList(d.T, LAMBDA t :
                     PyList(dim, LAMBDA u : InputValue(d.p, b, t, u))))]
    ELSE IF d.ndim = 2
    THEN [kind |-> "array", ndim |-> 2,
          val |-> PyList(d.T, LAMBDA t : PyList(dim, LAMBDA u : InputValue(d.p, 0, t, u)))]
    ELSE [kind |-> "plant", ndim |-> 0, val |-> <<>>]

\* The parameter vectors forward is called with: self.W, or a trial vector.
ParamChoices(w) == {w, [k \in DOMAIN w |-> WeightValue(NumSeeds + 1, k)]}

InitNet(a) ==
    LET net == Construct(a)
    IN  /\ struc_damping = net.struc_damping
        /\ rec_layers = net.rec_layers
        /\ shape = net.shape
        /\ conns = net.conns
        /\ offsets = net.offsets
        /\ W = net.W
        /\ layers = net.layers

InitIdle ==
    /\ pc = "idle"
    /\ log = <<>>
    /\ input = <<>>
    /\ activations = <<>>
    /\ d_activations = <<>>
    /\ step_s = 0
    /\ layer_i = 0
    /\ ret = NoResult
    /\ calls = 0
    /\ NoBatch
    /\ sweep = NoSweep
    /\ output = <<>>
    /\ calcG_Gv = <<>>

InitForward ==
    /\ \E a \in NetArgs :
          /\ args = a
          /\ InitNet(a)
          /\ \E T \in 1 .. MaxT :
                plant = NewPlant(MaxBatch, T, a.shape[0], a.shape[PyLen(a.shape) - 1])
    /\ InitIdle

\* The state forward works on, as one record.
State ==
    [input |-> input, activations |-> activations, d_activations |-> d_activations,
     layers |-> layers, plant |-> plant, log |-> log, s |-> step_s, i |-> layer_i]

SetState(st) ==
    /\ input' = st.input
    /\ activations' = st.activations
    /\ d_activations' = st.d_activations
    /\ layers' = st.layers
    /\ plant' = st.plant
    /\ log' = st.log
    /\ step_s' = st.s
    /\ layer_i' = st.i

\* The locals of forward go out of scope when it returns.
ClearLocals ==
    /\ input' = <<>>
    /\ activations' = <<>>
    /\ d_activations' = <<>>
    /\ step_s' = 0
    /\ layer_i' = 0

\* forward(input, params, deriv): lines 76-95
CallForward ==
    /\ pc = "idle"
    /\ calls < MaxCalls
    /\ \E d \in InputNames, params \in ParamChoices(W), deriv \in BOOLEAN :
          /\ args' = [op |-> "forward", input |-> InputOf(d, shape[0]), params |-> params,
                      deriv |-> deriv, targets |-> None]
          /\ SetState(ForwardBegin(Self, InputOf(d, shape[0]), State))
    /\ pc' = "forward"
    /\ ret' = NoResult
    /\ UNCHANGED <<gVars, sweep, batchVars, netVars, calls>>

\* lines 96-139: one layer of one timestep
ForwardStep ==
    /\ pc = "forward"
    /\ step_s < input.T
    /\ SetState(ForwardCell(Self, args.params, args.deriv, State))
    /\ UNCHANGED <<gVars, sweep, batchVars, args, pc, netVars, ret, calls>>

\* lines 141-144
ForwardReturn ==
    /\ pc = "forward"
    /\ step_s >= input.T
    /\ args.op = "forward"
    /\ ret' = [kind |-> "forward",
               val |-> [activations |-> activations,
                        d_activations |-> IF args.deriv THEN d_activations ELSE <<>>]]
    /\ ClearLocals
    /\ calls' = calls + 1
    /\ pc' = "idle"
    /\ UNCHANGED <<gVars, sweep, batchVars, args, log, netVars, layers, plant>>

NextForward ==
    \/ CallForward
    \/ ForwardStep
    \/ ForwardReturn

SpecForward == InitForward /\ [][NextForward]_vars

-----------------------------------------------------------------------------
(* HessianRNN.error.                                                       *)

\* Targets [batch][time][unit] for an input of the same batch and length.
TargetsFor(d, odim) ==
    PyList(d.B, LAMBDA b : PyList(d.T, LAMBDA t : PyList(odim, LAMBDA u : InputValue(2, b, t, u + 1))))

\* line 150: assert targets is None
TargetsUnchecked(tg) == TRUE
TargetsIsNone(tg) == ~tg.some

\* The loss value of the base class: squared error summed over batch, time, unit.
LossValue(out, tg) ==
    SumTo([b \in DOMAIN out |->
             SumTo([t \in DOMAIN out[b] |->
                      SumTo([u \in DOMAIN out[b][t] |->
                               (out[b][t][u] - tg[b][t][u]) * (out[b][t][u] - tg[b][t][u])],
                            PyLen(out[b][t]))],
                   PyLen(out[b]))],
          PyLen(out))

InitError == InitForward

\* lines 146-154: error(W, inputs, targets)
CallError ==
    /\ pc = "idle"
    /\ calls < MaxCalls
    /\ \E d \in {x \in InputNames : x.ndim # 2}, given \in BOOLEAN, trial \in BOOLEAN :
          LET in == InputOf(d, shape[0])
              callable == in.kind = "plant"
              tg == IF given
                    THEN Some(TargetsFor(IF callable
                                         THEN [B |-> plant.shape[1], T |-> plant.shape[2]]
                                         ELSE d,
                                         shape[PyLen(shape) - 1]))
                    ELSE None
              w == IF trial THEN [k \in DOMAIN W |-> WeightValue(NumSeeds + 1, k)] ELSE W
          IN  /\ callable \/ given
              /\ args' = [op |-> "error", input |-> in, params |-> w, deriv |-> FALSE,
                          targets |-> tg]
              /\ IF callable
                 THEN IF TargetsIsNone(tg)
                      THEN /\ SetState(ForwardBegin(Self, in, State))
                           /\ pc' = "forward"
                           /\ ret' = NoResult
                           /\ calls' = calls
                      ELSE /\ pc' = "idle"
                           /\ ret' = [kind |-> "AssertionError", val |-> <<>>]
                           /\ calls' = calls + 1
                           /\ UNCHANGED <<layers, plant, log, fwdVars>>
                 ELSE /\ pc' = "super_error"
                      /\ ret' = NoResult
                      /\ calls' = calls
                      /\ UNCHANGED <<layers, plant, log, fwdVars>>
    /\ UNCHANGED <<gVars, sweep, batchVars, netVars>>

\* lines 154-156: forward has returned; take targets and inputs from the plant
ErrorTakeFromPlant ==
    /\ pc = "forward"
    /\ step_s >= input.T
    /\ args.op = "error"
    /\ args' = [args EXCEPT !.targets = Some(PlantGetTargets(plant)),
                            !.input = [kind |-> "array", ndim |-> 3,
                                       val |-> PlantGetInputs(plant)]]
    /\ ClearLocals
    /\ pc' = "super_error"
    /\ UNCHANGED <<gVars, sweep, batchVars, log, netVars, layers, plant, ret, calls>>

\* line 158: the base class evaluates the loss of a forward pass on the arrays
SuperError ==
    /\ pc = "super_error"
    /\ LET r == Forward(Self, args.input, args.params, FALSE, State)
           n == PyLen(shape)
       IN  /\ ret' = [kind |-> "error",
                      val |-> LossValue(r.activations[n - 1], args.targets.val)]
           /\ layers' = r.layers
           /\ log' = r.log
    /\ calls' = calls + 1
    /\ pc' = "idle"
    /\ UNCHANGED <<gVars, sweep, batchVars, args, netVars, plant, fwdVars>>

NextError ==
    \/ CallError
    \/ ForwardStep
    \/ ErrorTakeFromPlant
    \/ SuperError

SpecError == InitError /\ [][NextError]_vars

\* C9: error called with a plant and explicit targets ends at once in the
\* failed precondition: the plant is not reset or stepped, no forward pass
\* starts, and the network is left as it was.
C9_PlantWithTargetsRejected ==
    [][(pc = "idle" /\ args'.op = "error" /\ args'.input.kind = "plant"
           /\ args'.targets.some)
          => (/\ pc' = "idle"
              /\ ret'.kind = "AssertionError"
              /\ UNCHANGED <<gVars, sweep, batchVars, netVars, layers, plant, log, fwdVars>>)]_vars

\* The call was rejected while the plant still held the state of an earlier run.
C9_Witness ==
    /\ pc = "idle" /\ ret.kind = "AssertionError"
    /\ args.op = "error" /\ args.input.kind = "plant" /\ args.targets.some
    /\ plant.inputs # <<>>
    /\ \E b \in DOMAIN plant.x : plant.x[b] # 0

-----------------------------------------------------------------------------
(* HessianRNN.calc_G: the Gauss-Newton matrix-vector product.              *)

\* The loss of the base class (squared error): first and second derivative.
LossD1(a, tg) == [b \in DOMAIN a |-> [u \in DOMAIN a[b] |-> a[b][u] - tg[b][u]]]
LossD2(a, tg) == [b \in DOMAIN a |-> [u \in DOMAIN a[b] |-> 1]]

\* self.d_activations[l][:, s] and, for a stateful layer, its block k
\* (self.d_activations[l][:, s, ..., k])
DAt(bt, l, t) == [b \in DOMAIN bt.d_activations[l] |-> bt.d_activations[l][b][t]]
DBlock(bt, l, t, k) ==
    [b \in DOMAIN bt.d_activations[l] |->
        [u \in DOMAIN bt.d_activations[l][b][t] |-> bt.d_activations[l][b][t][u][k + 1]]]

\* vec[lo:lo + len(x)] += x
AddSlice(vec, lo, x) ==
    [k \in DOMAIN vec |-> IF lo <= k /\ k < lo + PyLen(x) THEN vec[k] + x[k - lo] ELSE vec[k]]

\* vec[lo:lo + len(x)] = x
SetSlice(vec, lo, x) ==
    [k \in DOMAIN vec |-> IF lo <= k /\ k < lo + PyLen(x) THEN x[k - lo] ELSE vec[k]]

\* vec / n, kept exact: entry k is the fraction <<vec[k], n>>
DivideBy(vec, n) == [k \in DOMAIN vec |-> <<vec[k], n>>]

\* q + x for a vector q of fractions and a vector x of integers
AddInts(q, x) == [k \in DOMAIN q |-> <<q[k][1] + x[k] * q[k][2], q[k][2]>>]

\* k * v
ScaleVec(k, v) == [j \in DOMAIN v |-> k * v[j]]

\* lines 264-270: what the feedforward connections add to R_inputs[l][:, s]
RECURSIVE RFFInput(_, _, _, _, _, _, _)
RFFInput(net, bt, v, R_act, l, t, pres) ==
    IF pres = {} THEN Zeros2(PyLen(bt.inputs), net.shape[l])
    ELSE LET pre == CHOOSE p \in pres : TRUE
             vw == GetWeights(net, v, <<pre, l>>)
             Ww == GetWeights(net, net.W, <<pre, l>>)
             nin == net.shape[pre]
             nout == net.shape[l]
         IN  Add2(RFFInput(net, bt, v, R_act, l, t, pres \ {pre}),
                  Add2(AddRow(Dot(AtStep(bt.activations, pre, t), vw.W, nin, nout), vw.b),
                       Dot(R_act[pre], Ww.W, nin, nout)))

\* lines 272-281: what the recurrent connection adds to R_inputs[l][:, s]
RRecInputNoBias(net, bt, v, R_act, l, t) ==
    IF net.rec_layers[l] /\ t # 0
    THEN Add2(Dot(AtStep(bt.activations, l, t - 1),
                  GetWeights(net, v, <<l, l>>).W, net.shape[l], net.shape[l]),
              Dot(R_act[l], GetWeights(net, net.W, <<l, l>>).W, net.shape[l], net.shape[l]))
    ELSE Zeros2(PyLen(bt.inputs), net.shape[l])
RRecInput(net, bt, v, R_act, l, t) ==
    IF net.rec_layers[l]
    THEN IF t = 0
         THEN [b \in DOMAIN bt.inputs |-> GetWeights(net, v, <<l, l>>).b]
         ELSE Add2(Dot(AtStep(bt.activations, l, t - 1),
                       GetWeights(net, v, <<l, l>>).W, net.shape[l], net.shape[l]),
                   Dot(R_act[l], GetWeights(net, net.W, <<l, l>>).W,
                       net.shape[l], net.shape[l]))
    ELSE Zeros2(PyLen(bt.inputs), net.shape[l])

\* lines 248-255: the buffers of the R forward pass
RForwardBegin(net, bt) ==
    LET B == PyLen(bt.inputs)
    IN  [R_inputs |-> [l \in DOMAIN net.shape |->
                          [b \in DOMAIN bt.activations[l] |->
                              [t \in DOMAIN bt.activations[l][b] |-> Zeros(net.shape[l])]]],
         R_states |-> [l \in DOMAIN net.shape |->
                          IF Stateful(net.types[l]) THEN Zeros2(B, net.shape[l]) ELSE <<>>],
         R_activations |-> [l \in DOMAIN net.shape |-> <<>>],
         R_outputs |-> [b \in DOMAIN bt.inputs |->
                           [t \in DOMAIN bt.inputs[b] |-> Zeros(net.shape[PyLen(net.shape) - 1])]]]

\* lines 262-298: layer l at timestep t of the R forward pass
RForwardCell(net, bt, v, rf, t, l) ==
    LET n == PyLen(net.shape)
        rin == Add2(Add2(AtStep(rf.R_inputs, l, t),
                         IF l > 0
                         THEN RFFInput(net, bt, v, rf.R_activations, l, t,
                                       BackConns(net.conns, l))
                         ELSE Zeros2(PyLen(bt.inputs), net.shape[l])),
                    RRecInput(net, bt, v, rf.R_activations, l, t))
        st == IF Stateful(net.types[l])
              THEN Add2(JDot(DBlock(bt, l, t, 1), rf.R_states[l]),
                        JDot(DBlock(bt, l, t, 0), rin))
              ELSE <<>>
        ract == IF Stateful(net.types[l])
                THEN JDot(DBlock(bt, l, t, 2), st)
                ELSE JDot(DAt(bt, l, t), rin)
    IN  [R_inputs |-> [rf.R_inputs EXCEPT ![l] =
                          [b \in DOMAIN @ |-> [@[b] EXCEPT ![t] = rin[b]]]],
         R_states |-> [rf.R_states EXCEPT ![l] = st],
         R_activations |-> [rf.R_activations EXCEPT ![l] = ract],
         R_outputs |-> IF l = n - 1
                       THEN [b \in DOMAIN rf.R_outputs |->
                                [rf.R_outputs[b] EXCEPT ![t] = ract[b]]]
                       ELSE rf.R_outputs]

\* lines 261-298: the sweep, timestep ascending, layer ascending
RECURSIVE RForwardRun(_, _, _, _, _, _)
RForwardRun(net, bt, v, rf, t, l) ==
    IF t >= PyLen(bt.inputs[0]) THEN rf
    ELSE LET nx == RForwardCell(net, bt, v, rf, t, l)
         IN  IF l = PyLen(net.shape) - 1
             THEN RForwardRun(net, bt, v, nx, t + 1, 0)
             ELSE RForwardRun(net, bt, v, nx, t, l + 1)

\* lines 315-328: the error from the feedforward connections of layer l, and
\* their share of Gv
RECURSIVE RBackwardPosts(_, _, _, _, _, _)
RBackwardPosts(net, bt, acc, l, t, posts) ==
    IF posts = <<>> THEN acc
    ELSE LET post == Head(posts)
             w == GetWeights(net, net.W, <<l, post>>)
             o == net.offsets[<<l, post>>]
             B == PyLen(bt.inputs)
             nin == net.shape[l]
             nout == net.shape[post]
             d == acc.deltas[post]
         IN  RBackwardPosts(net, bt,
                 [acc EXCEPT
                    !.error = Add2(@, DotT(d, w.W, nin, nout)),
                    !.Gv = AddSlice(AddSlice(@, o[1],
                                             OuterSum(AtStep(bt.activations, l, t), d, B, nin, nout)),
                                    o[2], SumAxis0(d, B, nout))],
                 l, t, Tail(posts))

\* lines 354-359: the structural damping added to R_deltas[l]
StructuralUndamped(net, bt, rf, damping, l, t, d_output) ==
    JDot(d_output, Scale2(net.struc_damping, AtStep(rf.R_inputs, l, t)))
Structural(net, bt, rf, damping, l, t, d_output) ==
    JDot(d_output, Scale2(damping * net.struc_damping, AtStep(rf.R_inputs, l, t)))

\* lines 361-371: the recurrent share of Gv
RecGradientSameStep(net, bt, gv, deltas, l, t) ==
    IF net.rec_layers[l]
    THEN LET o == net.offsets[<<l, l>>]
             B == PyLen(bt.inputs)
         IN  IF t > 0
             THEN AddSlice(gv, o[1], OuterSum(AtStep(bt.activations, l, t), deltas,
                                              B, net.shape[l], net.shape[l]))
             ELSE SetSlice(gv, o[2], SumAxis0(deltas, B, net.shape[l]))
    ELSE gv
RecGradient(net, bt, gv, deltas, l, t) ==
    IF net.rec_layers[l]
    THEN LET o == net.offsets[<<l, l>>]
             B == PyLen(bt.inputs)
         IN  IF t > 0
             THEN AddSlice(gv, o[1], OuterSum(AtStep(bt.activations, l, t - 1), deltas,
                                              B, net.shape[l], net.shape[l]))
             ELSE SetSlice(gv, o[2], SumAxis0(deltas, B, net.shape[l]))
    ELSE gv

\* lines 301-306 and 240: the buffers of the R backward pass
RBackwardBegin(net, bt) ==
    LET B == PyLen(bt.inputs)
    IN  [R_deltas |-> [l \in DOMAIN net.shape |-> Zeros2(B, net.shape[l])],
         R_states |-> [l \in DOMAIN net.shape |->
                          IF Stateful(net.types[l]) THEN Zeros2(B, net.shape[l]) ELSE <<>>],
         Gv |-> Zeros(PyLen(net.W))]

\* lines 308-371: layer l at timestep t of the R backward pass
RBackwardCell(net, bt, rf, damping, rb, t, l) ==
    LET n == PyLen(net.shape)
        B == PyLen(bt.inputs)
        ff == IF l = n - 1
              THEN [error |-> Mul2([b \in DOMAIN rf.R_outputs |-> rf.R_outputs[b][t]],
                                   LossD2(AtStep(bt.activations, l, t),
                                          [b \in DOMAIN bt.targets |-> bt.targets[b][t]])),
                    deltas |-> rb.R_deltas, Gv |-> rb.Gv]
              ELSE RBackwardPosts(net, bt,
                                  [error |-> Zeros2(B, net.shape[l]),
                                   deltas |-> rb.R_deltas, Gv |-> rb.Gv],
                                  l, t, net.conns[l])
        R_error == IF net.rec_layers[l]
                   THEN Add2(ff.error,
                             DotT(rb.R_deltas[l], GetWeights(net, net.W, <<l, l>>).W,
                                  net.shape[l], net.shape[l]))
                   ELSE ff.error
        stateful == Stateful(net.types[l])
        d_output == IF stateful THEN DBlock(bt, l, t, 2) ELSE DAt(bt, l, t)
        st == IF stateful THEN Add2(rb.R_states[l], JDot(d_output, R_error)) ELSE <<>>
        delta == IF stateful THEN JDot(DBlock(bt, l, t, 0), st) ELSE JDot(DAt(bt, l, t), R_error)
        damped == Add2(delta, Structural(net, bt, rf, damping, l, t, d_output))
    IN  [R_deltas |-> [rb.R_deltas EXCEPT ![l] = damped],
         R_states |-> [rb.R_states EXCEPT ![l] =
                          IF stateful THEN JDot(DBlock(bt, l, t, 1), st) ELSE <<>>],
         Gv |-> RecGradient(net, bt, ff.Gv, damped, l, t)]

\* lines 307-371: the sweep, timestep descending, layer descending
RECURSIVE RBackwardRun(_, _, _, _, _, _, _)
RBackwardRun(net, bt, rf, damping, rb, t, l) ==
    IF t < 0 THEN rb
    ELSE LET nx == RBackwardCell(net, bt, rf, damping, rb, t, l)
         IN  IF l = 0
             THEN RBackwardRun(net, bt, rf, damping, nx, t - 1, PyLen(net.shape) - 1)
             ELSE RBackwardRun(net, bt, rf, damping, nx, t, l - 1)

\* lines 373-375: the Tikhonov damping added to Gv / batch size
TikhonovNone(gv, v, damping) == gv
Tikhonov(gv, v, damping) == AddInts(gv, ScaleVec(damping, v))

\* lines 245-375: the two passes accumulate into the array Gv0 that Gv names
\* after line 243; entry k of the result is the fraction <<numerator, batch size>>
CalcGFrom(net, bt, v, damping, Gv0) ==
    LET rf == RForwardRun(net, bt, v, RForwardBegin(net, bt), 0, 0)
        rb == RBackwardRun(net, bt, rf, damping,
                           [RBackwardBegin(net, bt) EXCEPT !.Gv = Gv0],
                           PyLen(bt.inputs[0]) - 1, PyLen(net.shape) - 1)
    IN  Tikhonov(DivideBy(rb.Gv, PyLen(bt.inputs)), v, damping)

\* calc_G(v, damping), output not given: Gv starts as np.zeros(self.W.size)
CalcG(net, bt, v, damping) == CalcGFrom(net, bt, v, damping, Zeros(PyLen(net.W)))

-----------------------------------------------------------------------------
(* HessianRNN.calc_grad                                                    *)

\* lines 179-194: the error from the feedforward connections of layer l, and
\* their share of the gradient
RECURSIVE GradPosts(_, _, _, _, _, _)
GradPosts(net, bt, acc, l, t, posts) ==
    IF posts = <<>> THEN acc
    ELSE LET post == Head(posts)
             w == GetWeights(net, net.W, <<l, post>>)
             o == net.offsets[<<l, post>>]
             B == PyLen(bt.inputs)
             nin == net.shape[l]
             nout == net.shape[post]
             d == acc.deltas[post]
         IN  GradPosts(net, bt,
                 [acc EXCEPT
                    !.error = Add2(@, DotT(d, w.W, nin, nout)),
                    !.grad = AddSlice(AddSlice(@, o[1],
                                               OuterSum(AtStep(bt.activations, l, t), d, B, nin, nout)),
                                      o[2], SumAxis0(d, B, nout))],
                 l, t, Tail(posts))

\* lines 217-229: the gradient for the recurrent weights
GradRecSameStep(net, bt, grad, deltas, l, t) ==
    IF net.rec_layers[l]
    THEN LET o == net.offsets[<<l, l>>]
             B == PyLen(bt.inputs)
         IN  IF t > 0
             THEN AddSlice(grad, o[1], OuterSum(AtStep(bt.activations, l, t), deltas,
                                                B, net.shape[l], net.shape[l]))
             ELSE SetSlice(grad, o[2], SumAxis0(deltas, B, net.shape[l]))
    ELSE grad
GradRec(net, bt, grad, deltas, l, t) ==
    IF net.rec_layers[l]
    THEN LET o == net.offsets[<<l, l>>]
             B == PyLen(bt.inputs)
         IN  IF t > 0
             THEN AddSlice(grad, o[1], OuterSum(AtStep(bt.activations, l, t - 1), deltas,
                                                B, net.shape[l], net.shape[l]))
             ELSE SetSlice(grad, o[2], SumAxis0(deltas, B, net.shape[l]))
    ELSE grad

\* lines 163-169: the buffers of the backward pass
CalcGradBegin(net, bt) ==
    LET B == PyLen(bt.inputs)
    IN  [deltas |-> [l \in DOMAIN net.shape |-> Zeros2(B, net.shape[l])],
         state_deltas |-> [l \in DOMAIN net.shape |->
                              IF Stateful(net.types[l]) THEN Zeros2(B, net.shape[l]) ELSE <<>>],
         grad |-> Zeros(PyLen(net.W))]

\* lines 175-229: layer l at timestep t of the backward pass
CalcGradCell(net, bt, g, t, l) ==
    LET n == PyLen(net.shape)
        B == PyLen(bt.inputs)
        ff == IF l = n - 1
              THEN [error |-> LossD1(AtStep(bt.activations, l, t),
                                     [b \in DOMAIN bt.targets |-> bt.targets[b][t]]),
                    deltas |-> g.deltas, grad |-> g.grad]
              ELSE GradPosts(net, bt,
                             [error |-> Zeros2(B, net.shape[l]),
                              deltas |-> g.deltas, grad |-> g.grad],
                             l, t, net.conns[l])
        error == IF net.rec_layers[l]
                 THEN Add2(ff.error,
                           DotT(g.deltas[l], GetWeights(net, net.W, <<l, l>>).W,
                                net.shape[l], net.shape[l]))
                 ELSE ff.error
        stateful == Stateful(net.types[l])
        st == IF stateful
              THEN Add2(g.state_deltas[l], JDot(DBlock(bt, l, t, 2), error))
              ELSE <<>>
        delta == IF stateful THEN JDot(DBlock(bt, l, t, 0), st) ELSE JDot(DAt(bt, l, t), error)
    IN  [deltas |-> [g.deltas EXCEPT ![l] = delta],
         state_deltas |-> [g.state_deltas EXCEPT ![l] =
                              IF stateful THEN JDot(DBlock(bt, l, t, 1), st) ELSE <<>>],
         grad |-> GradRec(net, bt, ff.grad, delta, l, t)]

\* lines 173-229: the sweep, timestep descending, layer descending
RECURSIVE CalcGradRun(_, _, _, _, _)
CalcGradRun(net, bt, g, t, l) ==
    IF t < 0 THEN g
    ELSE LET nx == CalcGradCell(net, bt, g, t, l)
         IN  IF l = 0
             THEN CalcGradRun(net, bt, nx, t - 1, PyLen(net.shape) - 1)
             ELSE CalcGradRun(net, bt, nx, t, l - 1)

\* calc_grad(): entry k of the result is the fraction <<numerator, batch size>>
CalcGrad(net, bt) ==
    DivideBy(CalcGradRun(net, bt, CalcGradBegin(net, bt),
                         PyLen(bt.inputs[0]) - 1, PyLen(net.shape) - 1).grad,
             PyLen(bt.inputs))

-----------------------------------------------------------------------------
(* The non-recurrent computation of the base class: one pass over the      *)
(* layers, no time axis, no recurrent weights, Tikhonov damping only.      *)

\* The derivative of a layer's output with respect to its input, for a
\* stateful layer the product of its input and output blocks.
BaseD(net, d, l) ==
    IF Stateful(net.types[l])
    THEN [b \in DOMAIN d[l] |-> [u \in DOMAIN d[l][b] |-> d[l][b][u][1] * d[l][b][u][3]]]
    ELSE d[l]

\* The input of layer l: sum over incoming connections of activation . W + b.
RECURSIVE BaseInput(_, _, _, _, _, _)
BaseInput(net, params, acts, B, l, pres) ==
    IF pres = {} THEN Zeros2(B, net.shape[l])
    ELSE LET pre == CHOOSE q \in pres : TRUE
             w == GetWeights(net, params, <<pre, l>>)
         IN  Add2(BaseInput(net, params, acts, B, l, pres \ {pre}),
                  AddRow(Dot(acts[pre], w.W, net.shape[pre], net.shape[l]), w.b))

RECURSIVE BaseForwardFrom(_, _, _, _, _)
BaseForwardFrom(net, params, x, out, l) ==
    IF l >= PyLen(net.shape) THEN out
    ELSE LET in == IF l = 0 THEN x
                   ELSE BaseInput(net, params, out.activations, PyLen(x), l,
                                  BackConns(net.conns, l))
             r == LayerActivation(NewLayer(net.types[l]), in)
             d == LayerDActivation(NewLayer(net.types[l]),
                                   IF UseActivations(net.types[l]) THEN r.out ELSE in)
         IN  BaseForwardFrom(net, params, x,
                             [activations |-> Concatenate(out.activations, PyList(1, LAMBDA k : r.out)),
                              d_activations |-> Concatenate(out.d_activations, PyList(1, LAMBDA k : d))],
                             l + 1)

\* forward(input, params, deriv=True) of the base class on one step of input
BaseForward(net, params, x) ==
    BaseForwardFrom(net, params, x, [activations |-> <<>>, d_activations |-> <<>>], 0)

\* Layer l of the base backward pass: deltas of the layers above are known.
RECURSIVE BaseGradPosts(_, _, _, _, _)
BaseGradPosts(net, bs, acc, l, posts) ==
    IF posts = <<>> THEN acc
    ELSE LET post == Head(posts)
             w == GetWeights(net, net.W, <<l, post>>)
             o == net.offsets[<<l, post>>]
             B == PyLen(bs.inputs)
             d == acc.deltas[post]
         IN  BaseGradPosts(net, bs,
                 [acc EXCEPT
                    !.error = Add2(@, DotT(d, w.W, net.shape[l], net.shape[post])),
                    !.grad = AddSlice(AddSlice(@, o[1],
                                               OuterSum(bs.activations[l], d, B,
                                                        net.shape[l], net.shape[post])),
                                      o[2], SumAxis0(d, B, net.shape[post]))],
                 l, Tail(posts))

RECURSIVE BaseBackward(_, _, _, _, _)
BaseBackward(net, bs, top, acc, l) ==
    IF l < 0 THEN acc
    ELSE LET ff == IF l = PyLen(net.shape) - 1
                   THEN [acc EXCEPT !.error = top]
                   ELSE BaseGradPosts(net, bs,
                                      [acc EXCEPT !.error = Zeros2(PyLen(bs.inputs), net.shape[l])],
                                      l, net.conns[l])
             delta == JDot(BaseD(net, bs.d_activations, l), ff.error)
         IN  BaseBackward(net, bs, top,
                          [ff EXCEPT !.deltas = [@ EXCEPT ![l] = delta]], l - 1)

BaseBackwardBegin(net, bs) ==
    [error |-> <<>>,
     deltas |-> [l \in DOMAIN net.shape |-> Zeros2(PyLen(bs.inputs), net.shape[l])],
     grad |-> Zeros(PyLen(net.W))]

\* calc_grad() of the base class
BaseCalcGrad(net, bs) ==
    DivideBy(BaseBackward(net, bs,
                          LossD1(bs.activations[PyLen(net.shape) - 1], bs.targets),
                          BaseBackwardBegin(net, bs), PyLen(net.shape) - 1).grad,
             PyLen(bs.inputs))

\* The R forward pass of the base class: R_activations of every layer.
RECURSIVE BaseRInput(_, _, _, _, _, _)
BaseRInput(net, bs, v, R_act, l, pres) ==
    IF pres = {} THEN Zeros2(PyLen(bs.inputs), net.shape[l])
    ELSE LET pre == CHOOSE q \in pres : TRUE
             vw == GetWeights(net, v, <<pre, l>>)
             Ww == GetWeights(net, net.W, <<pre, l>>)
         IN  Add2(BaseRInput(net, bs, v, R_act, l, pres \ {pre}),
                  Add2(AddRow(Dot(bs.activations[pre], vw.W, net.shape[pre], net.shape[l]), vw.b),
                       Dot(R_act[pre], Ww.W, net.shape[pre], net.shape[l])))

RECURSIVE BaseRForward(_, _, _, _, _)
BaseRForward(net, bs, v, R_act, l) ==
    IF l >= PyLen(net.shape) THEN R_act
    ELSE LET rin == IF l = 0 THEN Zeros2(PyLen(bs.inputs), net.shape[l])
                    ELSE BaseRInput(net, bs, v, R_act, l, BackConns(net.conns, l))
         IN  BaseRForward(net, bs, v,
                          Concatenate(R_act, PyList(1, LAMBDA k :
                                          JDot(BaseD(net, bs.d_activations, l), rin))),
                          l + 1)

\* calc_G(v, damping) of the base class
BaseCalcG(net, bs, v, damping) ==
    LET n == PyLen(net.shape)
        R_act == BaseRForward(net, bs, v, <<>>, 0)
        top == Mul2(R_act[n - 1], LossD2(bs.activations[n - 1], bs.targets))
        Gv == BaseBackward(net, bs, top, BaseBackwardBegin(net, bs), n - 1).grad
    IN  AddInts(DivideBy(Gv, PyLen(bs.inputs)), ScaleVec(damping, v))

\* A single-timestep batch of the recurrent network as the base class holds it.
SingleStep(bt) ==
    [inputs |-> [b \in DOMAIN bt.inputs |-> bt.inputs[b][0]],
     targets |-> [b \in DOMAIN bt.targets |-> bt.targets[b][0]],
     activations |-> [l \in DOMAIN bt.activations |-> AtStep(bt.activations, l, 0)],
     d_activations |-> [l \in DOMAIN bt.d_activations |-> DAt(bt, l, 0)]]

-----------------------------------------------------------------------------
(* The optimiser's use of a network: a batch is stored and its forward     *)
(* pass cached, then curvature products and the gradient are asked for.    *)

StrucDampings == {-1, 0, 1}
Dampings == {0, 1, 2}

\* The networks curvature products are computed on: full-width layers, every
\* nonlinearity, the recurrence flags the default, all set, or none set.
NetArgsG ==
    {MakeArgs(a) :
        a \in {x \in [shape : {sh \in NetShapes :
                                 \A l \in PyRange(PyLen(sh) - 1) : sh[l] = MaxUnits},
                      rec_layers : {None} \cup {Some([l \in PyRange(n) |-> f]) :
                                                   n \in 2 .. MaxLayers, f \in BOOLEAN},
                      struc_damping : StrucDampings, dense : BOOLEAN, load : {FALSE},
                      seed : {NumSeeds}, hidden : HiddenTypes]
                 : /\ x.rec_layers.some => PyLen(x.rec_layers.val) = PyLen(x.shape)
                   /\ ~x.rec_layers.some => PyLen(x.shape) > 2
                   /\ x.dense => (~x.rec_layers.some /\ x.hidden = "relu")}}

\* The directions v: the unit vectors of the parameter space and one dense vector.
Directions(n) ==
    {[k \in PyRange(n) |-> IF k = j THEN 1 ELSE 0] : j \in PyRange(n)}
       \cup {[k \in PyRange(n) |-> WeightValue(NumSeeds + 1, k)]}

InitG ==
    /\ \E a \in NetArgsG :
          /\ args = a
          /\ InitNet(a)
          /\ plant = NewPlant(1, 1, a.shape[0], a.shape[PyLen(a.shape) - 1])
    /\ InitIdle

\* The base class stores a batch and caches forward(self.inputs, self.W, deriv=True).
LoadBatch ==
    /\ pc = "idle"
    /\ inputs = <<>>
    /\ \E d \in {x \in InputNames : x.ndim = 3 /\ x.p = 1} :
          LET in == InputOf(d, shape[0])
              r == Forward(Self, in, W, TRUE, State)
          IN  /\ inputs' = in.val
              /\ targets' = TargetsFor(d, shape[PyLen(shape) - 1])
              /\ self_activations' = r.activations
              /\ self_d_activations' = r.d_activations
              /\ layers' = r.layers
    /\ UNCHANGED <<gVars, sweep, args, pc, log, netVars, plant, fwdVars, ret, calls>>

\* calc_G(v, damping): lines 236-377
CallCalcG ==
    /\ pc = "idle"
    /\ inputs # <<>>
    /\ ret = NoResult
    /\ \E v \in Directions(PyLen(W)), damping \in Dampings :
          /\ args' = [op |-> "calc_G", v |-> v, damping |-> damping]
          /\ ret' = [kind |-> "calc_G", val |-> CalcG(Self, Batch, v, damping)]
    /\ UNCHANGED <<gVars, sweep, batchVars, pc, log, netVars, layers, plant, fwdVars, calls>>

\* lines 174-175: the cell after (t, l) in the backward sweep
GradNext(net, t, l) ==
    IF l = 0 THEN [s |-> t - 1, l |-> PyLen(net.shape) - 1] ELSE [s |-> t, l |-> l - 1]

\* calc_grad(): lines 163-171
CallCalcGrad ==
    /\ pc = "idle"
    /\ inputs # <<>>
    /\ ret = NoResult
    /\ args' = [op |-> "calc_grad"]
    /\ sweep' = CalcGradBegin(Self, Batch) @@
                   [s |-> PyLen(inputs[0]) - 1, l |-> PyLen(shape) - 1]
    /\ log' = <<>>
    /\ pc' = "calc_grad"
    /\ UNCHANGED <<gVars, batchVars, netVars, layers, plant, fwdVars, ret, calls>>

\* lines 175-229: one layer of one timestep of the backward sweep
GradStep ==
    /\ pc = "calc_grad"
    /\ sweep.s >= 0
    /\ LET nx == CalcGradCell(Self, Batch, sweep, sweep.s, sweep.l)
       IN  /\ sweep' = nx @@ GradNext(Self, sweep.s, sweep.l)
           /\ log' = Append(log, Event("delta", sweep.s, sweep.l,
                                       [before |-> sweep.deltas, after |-> nx.deltas]))
    /\ UNCHANGED <<gVars, batchVars, args, pc, netVars, layers, plant, fwdVars, ret, calls>>

\* lines 231-234: divide by batchsize, return grad
GradReturn ==
    /\ pc = "calc_grad"
    /\ sweep.s < 0
    /\ ret' = [kind |-> "calc_grad", val |-> DivideBy(sweep.grad, PyLen(inputs))]
    /\ sweep' = NoSweep
    /\ pc' = "idle"
    /\ UNCHANGED <<gVars, batchVars, args, log, netVars, layers, plant, fwdVars, calls>>

NextG ==
    \/ LoadBatch
    \/ CallCalcG
    \/ CallCalcGrad
    \/ GradStep
    \/ GradReturn

SpecG == InitG /\ [][NextG]_vars

-----------------------------------------------------------------------------
(* Sequences of calc_G calls, with and without a caller's output array.    *)

\* The networks the sequences of calls are made on.
NetArgsSeq == {a \in NetArgsG : a.struc_damping = 1}

\* The vectors v of the calls: the first unit vector and the dense vector.
ProbeDirections(n) ==
    {[k \in PyRange(n) |-> IF k = 0 THEN 1 ELSE 0],
     [k \in PyRange(n) |-> WeightValue(NumSeeds + 1, k)]}

InitSeq ==
    /\ \E a \in NetArgsSeq :
          /\ args = a
          /\ InitNet(a)
          /\ plant = NewPlant(1, 1, a.shape[0], a.shape[PyLen(a.shape) - 1])
    /\ InitIdle

\* The caller allocates an array of the size of W; it holds whatever it holds.
AllocateOutput ==
    /\ pc = "idle"
    /\ inputs # <<>>
    /\ output = <<>>
    /\ output' = [k \in DOMAIN W |-> k + 1]
    /\ UNCHANGED <<calcG_Gv, sweep, batchVars, args, pc, log, netVars, layers, plant,
                   fwdVars, ret, calls>>

\* line 243: Gv[:] = 0
ZeroBufferSkipped(buf) == buf
ZeroBuffer(buf) == [k \in DOMAIN buf |-> 0]

\* calc_G(v, damping, output): lines 239-243.  With an output array, Gv names
\* that array.
CalcGEnter ==
    /\ pc = "idle"
    /\ inputs # <<>>
    /\ calls < MaxCalls
    /\ \E v \in ProbeDirections(PyLen(W)), damping \in Dampings, given \in BOOLEAN :
          /\ given => output # <<>>
          /\ args' = [op |-> "calc_G", v |-> v, damping |-> damping, output |-> given]
          /\ IF given
             THEN /\ output' = ZeroBuffer(output)
                  /\ calcG_Gv' = ZeroBuffer(output)
             ELSE /\ calcG_Gv' = Zeros(PyLen(W))
                  /\ UNCHANGED output
    /\ pc' = "calc_G"
    /\ ret' = NoResult
    /\ UNCHANGED <<sweep, batchVars, log, netVars, layers, plant, fwdVars, calls>>

\* lines 245-375: the R forward pass, the R backward pass, the division and
\* the Tikhonov damping, all accumulated in Gv
CalcGSweep ==
    /\ pc = "calc_G"
    /\ \E filled \in {CalcGFrom(Self, Batch, args.v, args.damping, calcG_Gv)} :
          /\ calcG_Gv' = filled
          /\ IF args.output THEN output' = filled ELSE UNCHANGED output
    /\ pc' = "calc_G_return"
    /\ UNCHANGED <<sweep, batchVars, args, log, netVars, layers, plant, fwdVars, ret, calls>>

\* line 377: return Gv
CalcGReturn ==
    /\ pc = "calc_G_return"
    /\ ret' = [kind |-> "calc_G", val |-> calcG_Gv, is_output |-> args.output]
    /\ calcG_Gv' = <<>>
    /\ calls' = calls + 1
    /\ pc' = "idle"
    /\ UNCHANGED <<output, sweep, batchVars, args, log, netVars, layers, plant, fwdVars>>

NextSeq ==
    \/ LoadBatch
    \/ AllocateOutput
    \/ CalcGEnter
    \/ CalcGSweep
    \/ CalcGReturn

SpecSeq == InitSeq /\ [][NextSeq]_vars

-----------------------------------------------------------------------------
(* Claims about calc_G.                                                    *)

\* Numerator of the inner product of v with a vector q of fractions.
InnerNum(v, q) == SumTo([k \in DOMAIN v |-> v[k] * q[k][1]], PyLen(v))

ReturnedG == pc = "idle" /\ ret.kind = "calc_G"

\* C3 as claimed: calc_G(v, damping) = calc_G(v, 0) + damping * v, whatever
\* struc_damping is.
C3_DampingLinear ==
    ReturnedG =>
        ret.val = AddInts(CalcG(Self, Batch, args.v, 0), ScaleVec(args.damping, args.v))

\* C3 amended: with struc_damping = 0, calc_G(v, damping) = calc_G(v, 0) + damping * v.
C3_DampingLinearNoStruc ==
    (ReturnedG /\ struc_damping = 0) =>
        ret.val = AddInts(CalcG(Self, Batch, args.v, 0), ScaleVec(args.damping, args.v))

C3_Witness ==
    /\ ReturnedG /\ struc_damping = 0 /\ args.damping = 2
    /\ NpAny(rec_layers) /\ PyLen(inputs[0]) > 1
    /\ \E k \in DOMAIN ret.val : ret.val[k][1] # 2 * args.v[k] * ret.val[k][2]

\* C4: the undamped product is symmetric: v1 . calc_G(v2, 0) = v2 . calc_G(v1, 0).
C4_Symmetric ==
    (ReturnedG /\ args.damping = 0) =>
        \A v1 \in Directions(PyLen(W)) :
            \A g1 \in {CalcG(Self, Batch, v1, 0)} :
                InnerNum(v1, ret.val) = InnerNum(args.v, g1)

C4_Witness ==
    /\ ReturnedG /\ args.damping = 0
    /\ NpAny(rec_layers) /\ PyLen(inputs[0]) > 1
    /\ \E v1 \in Directions(PyLen(W)) : v1 # args.v /\ InnerNum(v1, ret.val) # 0

\* C5 as claimed: v . calc_G(v, damping) >= 0 whenever damping >= 0.
C5_PositiveSemiDefinite ==
    (ReturnedG /\ args.damping >= 0) => InnerNum(args.v, ret.val) >= 0

\* C5 amended: v . calc_G(v, damping) >= 0 whenever damping >= 0 and
\* struc_damping >= 0.
C5_PositiveSemiDefiniteStruc ==
    (ReturnedG /\ args.damping >= 0 /\ struc_damping >= 0) =>
        InnerNum(args.v, ret.val) >= 0 /\ \A k \in DOMAIN ret.val : ret.val[k][2] > 0

C5_Witness ==
    /\ ReturnedG /\ args.damping > 0 /\ struc_damping > 0
    /\ NpAny(rec_layers) /\ PyLen(inputs[0]) > 1
    /\ InnerNum(args.v, ret.val) > args.damping * PyLen(inputs) * InnerNum(args.v, DivideBy(args.v, 1))

-----------------------------------------------------------------------------
(* Zero-recurrence reduction.                                              *)

\* No layer is recurrent and the stored batch has one timestep.
ZeroRecurrence ==
    /\ pc = "idle"
    /\ inputs # <<>>
    /\ ~NpAny(rec_layers)
    /\ PyLen(inputs[0]) = 1

ForwardReduces ==
    \A base \in {BaseForward(Self, W, SingleStep(Batch).inputs)} :
        /\ SingleStep(Batch).activations = base.activations
        /\ SingleStep(Batch).d_activations = base.d_activations

GradReduces ==
    ret.kind = "calc_grad" => ret.val = BaseCalcGrad(Self, SingleStep(Batch))

GReduces ==
    ret.kind = "calc_G" => ret.val = BaseCalcG(Self, SingleStep(Batch), args.v, args.damping)

\* C7 as claimed: with no recurrent layer and one timestep, forward, calc_grad
\* and calc_G give the results of the base computation, whatever struc_damping
\* and damping are.
C7_ZeroRecurrenceReduces ==
    ZeroRecurrence => (ForwardReduces /\ GradReduces /\ GReduces)

\* C7 amended: with no recurrent layer and one timestep, forward and calc_grad
\* give the results of the base computation, and so does calc_G when
\* damping * struc_damping = 0.
C7_ZeroRecurrenceReducesUndamped ==
    ZeroRecurrence =>
        /\ ForwardReduces
        /\ GradReduces
        /\ (ret.kind = "calc_G" /\ args.damping * struc_damping = 0) =>
               ret.val = BaseCalcG(Self, SingleStep(Batch), args.v, args.damping)

C7_Witness ==
    /\ ZeroRecurrence
    /\ ret.kind = "calc_G" /\ args.damping = 0 /\ struc_damping # 0
    /\ PyLen(shape) = MaxLayers /\ PyLen(inputs) > 1
    /\ \E k \in DOMAIN ret.val : ret.val[k][1] # 0

C7_WitnessGrad ==
    /\ ZeroRecurrence
    /\ ret.kind = "calc_grad"
    /\ \E k \in DOMAIN ret.val : ret.val[k][1] # 0

-----------------------------------------------------------------------------
(* Claims about sequences of calc_G calls.                                 *)

InCalcG == pc \in {"calc_G", "calc_G_return"}

\* What a call has to show at each of its positions: the output array zeroed
\* before the passes; the result the one computed from v, damping and the
\* cache alone; a given output array filled with it and returned.
CalcGResult ==
    /\ (pc = "calc_G" /\ args.output) =>
          /\ output = Zeros(PyLen(W))
          /\ calcG_Gv = output
    /\ (pc = "idle" /\ ret.kind = "calc_G") =>
          /\ ret.val = CalcG(Self, Batch, args.v, args.damping)
          /\ args.output => (ret.is_output /\ output = ret.val)

\* What a step of a call leaves alone: the parameter vector, the offsets, the
\* nonlinearities, the stored batch and its cache, v and damping, and an
\* output array that was not handed over.
CalcGFrame ==
    (InCalcG \/ InCalcG') =>
        /\ UNCHANGED <<netVars, layers, batchVars>>
        /\ InCalcG => args' = args
        /\ ~args'.output => UNCHANGED output

\* C13: any sequence of calc_G calls leaves the parameter vector, the cache,
\* the stored batch and v unchanged; the result of each call depends only on
\* v, damping and the cache, not on earlier calls or on what the output array
\* held, which is zeroed first, filled, and returned.
C13_CallsIndependent == [](CalcGResult) /\ [][CalcGFrame]_vars

\* A second call has returned, in the output array the first call filled, on
\* a recurrent network over several timesteps.
C13_Witness ==
    /\ pc = "idle" /\ ret.kind = "calc_G" /\ calls = 2
    /\ args.output /\ output = ret.val
    /\ NpAny(rec_layers) /\ PyLen(inputs[0]) > 1
    /\ \E k \in DOMAIN ret.val : ret.val[k][1] # 0
    /\ \E k \in DOMAIN ret.val : ret.val[k][1] = 0

-----------------------------------------------------------------------------
(* Claims about calc_grad.                                                 *)

DeltaEvents == {k \in 1 .. Len(log) : log[k].ev = "delta"}

\* The delta of layer l at timestep t, as the sweep computed it.
DeltaOf(l, t) ==
    log[CHOOSE k \in DeltaEvents : log[k].i = l /\ log[k].s = t].arg.after[l]

\* The layers that layer l feeds.
PostsOf(l) == IF l \in DOMAIN conns THEN {conns[l][j] : j \in 1 .. Len(conns[l])} ELSE {}

\* The error of layer l at timestep t, from the deltas of the layers it feeds
\* at timestep t and, for a recurrent layer, its own delta at timestep t + 1.
RECURSIVE FeedforwardError(_, _, _)
FeedforwardError(l, t, posts) ==
    IF posts = {} THEN Zeros2(PyLen(inputs), shape[l])
    ELSE LET post == CHOOSE q \in posts : TRUE
         IN  Add2(FeedforwardError(l, t, posts \ {post}),
                  DotT(DeltaOf(post, t), GetWeights(Self, W, <<l, post>>).W,
                       shape[l], shape[post]))

ErrorOf(l, t) ==
    LET ff == IF l = PyLen(shape) - 1
              THEN LossD1(AtStep(self_activations, l, t),
                          [b \in DOMAIN targets |-> targets[b][t]])
              ELSE FeedforwardError(l, t, PostsOf(l))
    IN  IF rec_layers[l] /\ t < PyLen(inputs[0]) - 1
        THEN Add2(ff, DotT(DeltaOf(l, t + 1), GetWeights(Self, W, <<l, l>>).W,
                           shape[l], shape[l]))
        ELSE ff

\* Entry k of the gradient, before the division, from the deltas of the sweep.
GradEntry(k) ==
    LET key == CHOOSE c \in DOMAIN offsets : offsets[c][1] <= k /\ k < offsets[c][3]
        o == offsets[key]
        l == key[1]
        post == key[2]
        B == PyLen(inputs)
        T == PyLen(inputs[0])
        a == (k - o[1]) \div shape[post]
        u == IF k < o[2] THEN (k - o[1]) % shape[post] ELSE k - o[2]
    IN  IF l # post
        THEN SumTo([t \in PyRange(T) |->
                      SumTo([b \in PyRange(B) |->
                               (IF k < o[2] THEN self_activations[l][b][t][a] ELSE 1)
                                  * DeltaOf(post, t)[b][u]], B)], T)
        ELSE IF k < o[2]
        THEN SumTo([t \in PyRange(T) |->
                      IF t = 0 THEN 0
                      ELSE SumTo([b \in PyRange(B) |->
                                    self_activations[l][b][t - 1][a] * DeltaOf(l, t)[b][u]], B)], T)
        ELSE SumTo([b \in PyRange(B) |-> DeltaOf(l, 0)[b][u]], B)

ReturnedGrad == pc = "idle" /\ ret.kind = "calc_grad"

\* C12: the backward sweep of calc_grad runs timestep descending, layer
\* descending; when layer l is processed at timestep s the deltas of the layers
\* it feeds are those of timestep s, the recurrent error uses the layer's own
\* delta of timestep s + 1 and is zero at the last timestep; the recurrent
\* gradient is outer(activation(l, s - 1), delta(l, s)) for s > 0 in the weight
\* block and the batch sum of delta(l, 0) in the bias block; the result is the
\* accumulated gradient divided by the batch size.
C12_BackwardSweep ==
    (pc = "calc_grad" \/ ReturnedGrad) =>
        /\ \A k \in DeltaEvents :
              LET l == log[k].i
                  t == log[k].s
                  before == log[k].arg.before
              IN  /\ \A j \in DeltaEvents :
                        j < k => \/ log[j].s > t
                                 \/ log[j].s = t /\ log[j].i > l
                  /\ \A post \in PostsOf(l) :
                        /\ \E j \in DeltaEvents : j < k /\ log[j].i = post /\ log[j].s = t
                        /\ before[post] = DeltaOf(post, t)
                  /\ rec_layers[l] =>
                        IF t = PyLen(inputs[0]) - 1
                        THEN before[l] = Zeros2(PyLen(inputs), shape[l])
                        ELSE /\ \E j \in DeltaEvents : j < k /\ log[j].i = l /\ log[j].s = t + 1
                             /\ before[l] = DeltaOf(l, t + 1)
                  /\ ~Stateful(layers[l].type) =>
                        DeltaOf(l, t) = JDot(DAt(Batch, l, t), ErrorOf(l, t))
        /\ ReturnedGrad =>
              /\ Cardinality(DeltaEvents) = PyLen(shape) * PyLen(inputs[0])
              /\ ret.val = [k \in DOMAIN W |-> <<GradEntry(k), PyLen(inputs)>>]
              /\ ret.val = CalcGrad(Self, Batch)

\* A gradient returned for a batch of several samples and timesteps on a
\* network with a recurrent hidden layer, the recurrent blocks not all zero.
C12_Witness ==
    /\ ReturnedGrad
    /\ PyLen(inputs) > 1 /\ PyLen(inputs[0]) > 1
    /\ \E l \in DOMAIN shape :
          /\ rec_layers[l] /\ PostsOf(l) # {}
          /\ \E k \in DOMAIN W : offsets[<<l, l>>][1] <= k /\ k < offsets[<<l, l>>][2]
                                   /\ ret.val[k][1] # 0
          /\ \E k \in DOMAIN W : offsets[<<l, l>>][2] <= k /\ k < offsets[<<l, l>>][3]
                                   /\ ret.val[k][1] # 0

-----------------------------------------------------------------------------
(* Claims about forward.                                                   *)

\* A freshly constructed network with a fresh plant of the same shape.
Fresh ==
    [layers |-> [l \in DOMAIN layers |-> NewLayer(layers[l].type)],
     plant |-> NewPlant(plant.shape[1], plant.shape[2], plant.shape[3], plant.odim)]

\* C6: whatever calls came before, what forward returns is what the same call
\* returns on a freshly constructed network.
C6_HistoryIndependent ==
    (pc = "idle" /\ ret.kind = "forward") =>
        ret.val.activations =
            Forward(Self, args.input, args.params, args.deriv, Fresh).activations

\* A second forward call returned on an array input, on a network with a
\* stateful layer, after a first call that drove, and left state in, the plant.
C6_Witness ==
    /\ pc = "idle" /\ ret.kind = "forward" /\ calls = 2
    /\ args.input.kind = "array"
    /\ plant.inputs # <<>>
    /\ \E b \in DOMAIN plant.x : plant.x[b] # 0
    /\ \E l \in DOMAIN layers : layers[l].type = "integrator" /\ layers[l].act_state # <<>>

Is2D == args.op = "forward" /\ args.input.kind = "array" /\ args.input.ndim = 2

\* The timesteps at which the sweep has computed layer l so far.
StepsDone(l) == {log[j].s : j \in {k \in 1 .. Len(log) : log[k].ev = "layer" /\ log[k].i = l}}

\* C8 as claimed: a 2-D input becomes a batch of single-timestep samples, its
\* first axis the batch axis: one timestep is swept and every activation array
\* has time-axis length 1.
C8_SingleTimestep ==
    (pc = "forward" /\ Is2D) =>
        /\ input.T = 1
        /\ input.B = PyLen(args.input.val)
        /\ \A l \in DOMAIN shape :
              /\ PyLen(activations[l]) = PyLen(args.input.val)
              /\ \A b \in DOMAIN activations[l] : PyLen(activations[l][b]) = 1
        /\ step_s >= input.T => \A l \in DOMAIN shape : StepsDone(l) = {0}

\* C8 amended: a 2-D input becomes a batch of one sample, its first axis the
\* time axis: the sweep runs one timestep per row, row t is the input of step t,
\* and every activation array has batch-axis length 1.
C8_SingleSample ==
    (pc = "forward" /\ Is2D) =>
        /\ input.B = 1
        /\ input.T = PyLen(args.input.val)
        /\ \A t \in PyRange(input.T) : input.val[0][t] = args.input.val[t]
        /\ \A l \in DOMAIN shape :
              /\ PyLen(activations[l]) = 1
              /\ PyLen(activations[l][0]) = PyLen(args.input.val)
        /\ step_s >= input.T =>
              \A l \in DOMAIN shape : StepsDone(l) = PyRange(PyLen(args.input.val))

C8_Witness ==
    /\ pc = "forward" /\ Is2D
    /\ PyLen(args.input.val) > 1
    /\ step_s >= input.T

PlantCalls == {j \in 1 .. Len(log) : log[j].ev = "plant.call"}

\* C10: in a plant-driven forward pass the plant is reset once, first of all;
\* it is called once per timestep, in increasing order of timestep and before
\* any layer of that timestep; it is called with the final layer's output of the
\* previous timestep, and with zeros at timestep 0.
C10_PlantProtocol ==
    (pc = "forward" /\ input.kind = "plant") =>
        LET n == PyLen(shape)
        IN  /\ Len(log) >= 1 /\ log[1].ev = "plant.reset"
            /\ \A j \in 2 .. Len(log) : log[j].ev # "plant.reset"
            /\ \A j, k \in PlantCalls : j < k => log[j].s < log[k].s
            /\ \A k \in 1 .. Len(log) :
                  log[k].ev = "layer" =>
                     \E j \in PlantCalls : j < k /\ log[j].s = log[k].s
            /\ Len(plant.inputs) = Cardinality(PlantCalls)
            /\ step_s >= input.T => {log[j].s : j \in PlantCalls} = PyRange(input.T)
            /\ \A j \in PlantCalls :
                  log[j].arg = IF log[j].s > 0
                               THEN AtStep(activations, n - 1, log[j].s - 1)
                               ELSE Zeros2(input.B, shape[n - 1])

C10_Witness ==
    /\ pc = "forward" /\ input.kind = "plant"
    /\ input.T > 1 /\ step_s >= input.T
    /\ \E j \in PlantCalls : \E b \in DOMAIN log[j].arg : log[j].arg[b][0] # 0

LayerEvents == {k \in 1 .. Len(log) : log[k].ev = "layer"}

\* Cell <<l, t>> was written by an event before event k.
WrittenBefore(k, l, t) ==
    \E j \in LayerEvents : j < k /\ log[j].i = l /\ log[j].s = t

\* The cells are computed timestep-major, layer-minor; each is computed from
\* cells computed before it, among them every incoming connection's cell of
\* the same timestep and, for a recurrent layer past the first timestep, its
\* own cell of the previous timestep; at the end every cell has been computed.
SweepInOrder ==
    pc = "forward" =>
        /\ \A k \in LayerEvents :
              /\ \A pre \in BackConns(conns, log[k].i) :
                    <<pre, log[k].s>> \in log[k].arg
              /\ (rec_layers[log[k].i] /\ log[k].s > 0) =>
                    <<log[k].i, log[k].s - 1>> \in log[k].arg
              /\ \A r \in log[k].arg : WrittenBefore(k, r[1], r[2])
              /\ \A j \in LayerEvents :
                    j < k => \/ log[j].s < log[k].s
                             \/ log[j].s = log[k].s /\ log[j].i < log[k].i
        /\ step_s >= input.T =>
              \A l \in DOMAIN shape, t \in PyRange(input.T) :
                 WrittenBefore(Len(log) + 1, l, t)

\* A step of the sweep leaves every cell computed so far as it is.
CellsKept ==
    (pc = "forward" /\ pc' = "forward") =>
        \A k \in LayerEvents :
           AtStep(activations', log[k].i, log[k].s) = AtStep(activations, log[k].i, log[k].s)

\* C11: the forward sweep is timestep-major, layer-minor; when cell (i, s) is
\* computed, the cells (pre, s) of its incoming connections and, for a
\* recurrent layer at s > 0, its own cell (i, s - 1) have been computed; every
\* cell is written once and not overwritten later in the pass.
C11_SweepRespectsDependencies == [](SweepInOrder) /\ [][CellsKept]_vars

\* A finished pass over several timesteps of a network with a recurrent layer
\* and a layer fed by two connections.
C11_Witness ==
    /\ pc = "forward" /\ step_s >= input.T /\ input.T > 1
    /\ \E l \in DOMAIN shape : rec_layers[l] /\ Cardinality(BackConns(conns, l)) > 0
    /\ \E l \in DOMAIN shape : Cardinality(BackConns(conns, l)) > 1
    /\ Cardinality(LayerEvents) = PyLen(shape) * input.T
    /\ \E l \in DOMAIN shape :
          \E b \in DOMAIN activations[l], u \in PyRange(shape[l]) :
             activations[l][b][0][u] # 0

====
